---- MODULE Spec2Model ----
(***************************************************************************)
(* A model of daily_pubmed_digest.py: the persisted dedup store            *)
(* (sent_pmids.json), one run of main() as a sequence of steps, the        *)
(* summarization step and the author part of parse_records.                *)
(*                                                                         *)
(* Text is modelled as a sequence of pieces (a piece is an atomic run of   *)
(* characters), so that concatenation, stripping and "ends with" are       *)
(* computed rather than assumed.  PMIDs are strings, timestamps are        *)
(* positive naturals (the n-th run's now_jst_iso is n) and None is 0.      *)
(***************************************************************************)
EXTENDS Naturals, Sequences, FiniteSets, TLC

\* ---------------------------------------------------------------- bounds
MaxId == 2
MaxRuns == 3
MaxAuthors == 2
MaxDates == 2
MaxHits == 2

\* ------------------------------------------------------------- basic data
None == 0

IdNames == <<"101", "102", "103", "104">>

Ids == {IdNames[i] : i \in 1..MaxId}

\* the rank of a key in string order; the empty key sorts before every other
IdIndex(p) == IF p = "" THEN 0 ELSE CHOOSE i \in 1..Len(IdNames) : IdNames[i] = p

Range(s) == {s[i] : i \in 1..Len(s)}

RECURSIVE SortedKeys(_)
SortedKeys(S) ==
  IF S = {} THEN <<>>
  ELSE LET m == CHOOSE x \in S : \A y \in S : IdIndex(x) <= IdIndex(y)
       IN <<m>> \o SortedKeys(S \ {m})

\* the idlist of one esearch answer: identifiers in the order the service
\* gives them, which nothing in the program sorts or deduplicates
IdLists == UNION {[1..n -> Ids] : n \in 0..MaxHits}

\* the inner loop of pubmed_multi_esearch_all: append what is not yet seen
RECURSIVE AppendUnseen(_, _)
AppendUnseen(all_pmids, ids) ==
  IF ids = <<>> THEN all_pmids
  ELSE AppendUnseen(IF Head(ids) \in Range(all_pmids) THEN all_pmids
                    ELSE Append(all_pmids, Head(ids)),
                    Tail(ids))

RECURSIVE MultiFrom(_, _)
MultiFrom(all_pmids, idlists) ==
  IF idlists = <<>> THEN all_pmids
  ELSE MultiFrom(AppendUnseen(all_pmids, Head(idlists)), Tail(idlists))

pubmed_multi_esearch_all(idlists) == MultiFrom(<<>>, idlists)

\* the pmids of main(): one idlist as it is when SEARCH_QUERIES is not set,
\* else the first-seen merge of the idlists of the queries (two here)
SearchResults ==
  IdLists \cup {pubmed_multi_esearch_all(qs) : qs \in [1..2 -> IdLists]}

RECURSIVE SubSeqs(_)
SubSeqs(s) ==
  IF s = <<>> THEN {<<>>}
  ELSE LET rest == SubSeqs(Tail(s))
       IN rest \cup {<<Head(s)>> \o t : t \in rest}

\* ------------------------------------------------------- the dedup store
Entry(ts) == [isdict |-> TRUE, added_at |-> ts]

EmptyState == [p \in {} |-> Entry(None)]

MissingFile == [kind |-> "missing", data |-> <<>>]

TornFile == [kind |-> "torn", data |-> <<>>]

LegacyFile(l) == [kind |-> "list", data |-> l]

\* a save that writes only the entries that carry a timestamp
json_dump_timestamped(st) ==
  [kind |-> "dict",
   data |-> LET ks == SortedKeys({k \in DOMAIN st : st[k].added_at # None})
            IN [i \in 1..Len(ks) |-> <<ks[i], st[ks[i]]>>]]

\* json.dump(state, sort_keys=True): the pairs of the mapping, sorted by key
json_dump(st) ==
  [kind |-> "dict",
   data |-> LET ks == SortedKeys(DOMAIN st)
            IN [i \in 1..Len(ks) |-> <<ks[i], st[ks[i]]>>]]

\* json.load of an object: a mapping in which the last pair of a key wins
json_load_object(pairs) ==
  [k \in {pairs[i][1] : i \in 1..Len(pairs)} |->
     LET last == CHOOSE i \in 1..Len(pairs) :
                   /\ pairs[i][1] = k
                   /\ \A j \in 1..Len(pairs) : pairs[j][1] = k => j <= i
     IN pairs[last][2]]

load_sent_state(f) ==
  CASE f.kind = "missing" -> EmptyState
    [] f.kind = "list" -> [p \in Range(f.data) |-> Entry(None)]
    [] f.kind = "dict" -> json_load_object(f.data)
    [] OTHER -> EmptyState

\* a registration that always stamps the entry
RegisterOverwrite(st, pmid, ts) ==
  [p \in DOMAIN st \cup {pmid} |-> IF p = pmid THEN Entry(ts) ELSE st[p]]

\* main(), lines 544-547: the registration of one record's pmid
Register(st, pmid, ts) ==
  IF pmid \notin DOMAIN st \/ ~st[pmid].isdict
    THEN [p \in DOMAIN st \cup {pmid} |-> IF p = pmid THEN Entry(ts) ELSE st[p]]
  ELSE IF st[pmid].added_at = None
    THEN [st EXCEPT ![pmid].added_at = ts]
  ELSE st

\* main(), line 529
FilterNew(ps, st) == SelectSeq(ps, LAMBDA p : p \notin DOMAIN st)

\* ------------------------------------------------------------------ text
\* a text is a sequence of non-empty pieces; "" is the empty sequence
RECURSIVE LStrip(_, _)
LStrip(s, chars) ==
  IF s # <<>> /\ Head(s) \in chars THEN LStrip(Tail(s), chars) ELSE s

RECURSIVE RStrip(_, _)
RStrip(s, chars) ==
  IF s # <<>> /\ s[Len(s)] \in chars THEN RStrip(SubSeq(s, 1, Len(s) - 1), chars) ELSE s

Whitespace == {" ", "\t", "\n"}

Strip(s) == RStrip(LStrip(s, Whitespace), Whitespace)

EndsWith(s, suf) ==
  /\ Len(suf) <= Len(s)
  /\ SubSeq(s, Len(s) - Len(suf) + 1, Len(s)) = suf

RECURSIVE Join(_, _)
Join(ss, sep) ==
  IF ss = <<>> THEN <<>>
  ELSE IF Len(ss) = 1 THEN ss[1]
  ELSE ss[1] \o sep \o Join(Tail(ss), sep)

\* ----------------------------------------------------- country inference
\* An affiliation text is a sequence of segments (separated by ";"), each a
\* sequence of tokens (separated by ","); "" is the empty sequence.  The
\* tables below are the rows of the program's tables for the tokens used.
AffTokens == {"Japan", "republic of korea", "Seoul", "123", "a@b.jp", "a@b.zz"}

COUNTRY_ALIASES ==
  [a \in {"japan", "republic of korea", "south korea", "korea"} |->
     IF a = "japan" THEN "Japan" ELSE "South Korea"]

TLD_COUNTRY_MAP == [t \in {"jp", "kr"} |-> IF t = "jp" THEN "Japan" ELSE "South Korea"]

AliasValues == {COUNTRY_ALIASES[a] : a \in DOMAIN COUNTRY_ALIASES}

Lower(tok) ==
  CASE tok = "Japan" -> "japan"
    [] tok = "South Korea" -> "south korea"
    [] tok = "Seoul" -> "seoul"
    [] OTHER -> tok

\* the group of re.search(r'@[\w\.-]+\.(\w+)') within one token, "" if none
EmailTld(tok) ==
  CASE tok = "a@b.jp" -> "jp"
    [] tok = "a@b.zz" -> "zz"
    [] OTHER -> ""

\* re.match(r"^[A-Za-z...' .-]+$", tok) and 2 <= len(tok) <= 40
LooksLikePlace(tok) == tok \in {"Japan", "republic of korea", "Seoul"}

\* re.search of the alias as a standalone word of the token
AliasOccursIn(alias, tok) ==
  \/ Lower(tok) = alias
  \/ alias = "korea" /\ tok = "republic of korea"

\* sorted(COUNTRY_ALIASES.keys(), key=len, reverse=True): the sort is stable,
\* so aliases of equal length keep the order of the table ("korea" is on an
\* earlier row than "japan")
AliasesByLen == <<"republic of korea", "south korea", "korea", "japan">>

normalize_country(name) ==
  IF Lower(name) \in DOMAIN COUNTRY_ALIASES THEN COUNTRY_ALIASES[Lower(name)] ELSE name

RECURSIVE Flatten(_)
Flatten(segs) == IF segs = <<>> THEN <<>> ELSE Head(segs) \o Flatten(Tail(segs))

\* tier 2: the tokens of the tail, scanned from the end
RECURSIVE TailScan(_)
TailScan(toks) ==
  IF toks = <<>> THEN ""
  ELSE LET tok == toks[Len(toks)]
           norm == normalize_country(tok)
       IN IF norm # tok \/ norm \in AliasValues
            THEN (IF Lower(norm) \in DOMAIN COUNTRY_ALIASES
                    THEN COUNTRY_ALIASES[Lower(norm)] ELSE norm)
          ELSE IF LooksLikePlace(tok) THEN tok
          ELSE TailScan(SubSeq(toks, 1, Len(toks) - 1))

\* tier 3: the first alias, longest first, found anywhere in the text
RECURSIVE WholeScan(_, _)
WholeScan(aliases, toks) ==
  IF aliases = <<>> THEN ""
  ELSE IF \E i \in 1..Len(toks) : AliasOccursIn(Head(aliases), toks[i])
    THEN COUNTRY_ALIASES[Head(aliases)]
  ELSE WholeScan(Tail(aliases), toks)

extract_country_from_aff(aff) ==
  IF aff = <<>> THEN ""
  ELSE LET toks == Flatten(aff)
           mails == SelectSeq(toks, LAMBDA t : EmailTld(t) # "")
           tld == IF mails = <<>> THEN "" ELSE EmailTld(mails[1])
           t2 == TailScan(aff[Len(aff)])
       IN IF tld \in DOMAIN TLD_COUNTRY_MAP THEN TLD_COUNTRY_MAP[tld]
          ELSE IF t2 # "" THEN t2
          ELSE WholeScan(AliasesByLen, toks)

\* ------------------------------------------- parse_records: the authors
ET_AL == <<", et al.">>

\* f"（{country}）"
CountrySuffix(country) == <<"(", country, ")">>

\* One Author node: LastName, Initials and CollectiveName are texts, aff is
\* the text of its AffiliationInfo/Affiliation (<<>>: no such element).
AuthorAcc0 == [first_author_name |-> <<>>, counted |-> 0, aff_raw |-> <<>>]

AuthorStep(acc, au) ==
  IF au.last # <<>> \/ au.init # <<>>
    THEN LET name == Strip(au.last \o <<" ">> \o au.init)
         IN IF acc.first_author_name = <<>>
              THEN [first_author_name |-> name, counted |-> acc.counted + 1,
                    aff_raw |-> au.aff]
              ELSE [acc EXCEPT !.counted = @ + 1]
  ELSE IF au.collective # <<>>
    THEN IF acc.first_author_name = <<>>
           THEN [acc EXCEPT !.first_author_name = au.collective, !.counted = @ + 1]
           ELSE [acc EXCEPT !.counted = @ + 1]
  ELSE acc

RECURSIVE AuthorsFold(_, _)
AuthorsFold(nodes, acc) ==
  IF nodes = <<>> THEN acc ELSE AuthorsFold(Tail(nodes), AuthorStep(acc, Head(nodes)))

\* art.find(".//AffiliationInfo/Affiliation"): the first one in the article,
\* the authors' in document order, then those outside the author list
AnyAffiliation(art) ==
  LET affs == SelectSeq([i \in 1..Len(art.authors) |-> art.authors[i].aff],
                        LAMBDA a : a # <<>>)
  IN IF affs # <<>> THEN affs[1] ELSE art.other_aff

\* a display that wants more than two credited authors for the suffix
AuthorsDisplayOverTwo(name, counted, country) ==
  LET d1 == IF counted > 2 /\ name # <<>> THEN name \o ET_AL ELSE name
  IN IF country # "" THEN d1 \o <<"(", country, ")">> ELSE d1

AuthorsDisplay(name, counted, country) ==
  LET d1 == IF counted >= 2 /\ name # <<>> THEN name \o ET_AL ELSE name
  IN IF country # "" THEN d1 \o CountrySuffix(country) ELSE d1

authors_line(art) ==
  LET acc == AuthorsFold(art.authors, AuthorAcc0)
      aff_raw == IF acc.aff_raw = <<>> THEN AnyAffiliation(art) ELSE acc.aff_raw
      country == extract_country_from_aff(aff_raw)
  IN AuthorsDisplay(acc.first_author_name, acc.counted, country)

\* ------------------------------------------------------- publication date
\* The text of a Year, Month or Day element is a sequence of pieces, <<>> for
\* an element that is missing or empty.
MONTH_ABBR(m) ==
  CASE m \in {"1", "01", "Jan", "January"} -> "Jan"
    [] m \in {"2", "02", "Feb", "February"} -> "Feb"
    [] m \in {"3", "03", "Mar", "March"} -> "Mar"
    [] m \in {"4", "04", "Apr", "April"} -> "Apr"
    [] m \in {"5", "05", "May"} -> "May"
    [] m \in {"6", "06", "Jun", "June"} -> "Jun"
    [] m \in {"7", "07", "Jul", "July"} -> "Jul"
    [] m \in {"8", "08", "Aug", "August"} -> "Aug"
    [] m \in {"9", "09", "Sep", "September"} -> "Sep"
    [] m \in {"10", "Oct", "October"} -> "Oct"
    [] m \in {"11", "Nov", "November"} -> "Nov"
    [] m \in {"12", "Dec", "December"} -> "Dec"
    [] OTHER -> m

\* the pieces for which d.isdigit() and len(d) == 1
Digits == {"0", "1", "2", "3", "4", "5", "6", "7", "8", "9"}

fmt_date(y, m, d) ==
  LET ys == Strip(y)
      ms0 == Strip(m)
      ms == IF Len(ms0) = 1 THEN <<MONTH_ABBR(ms0[1])>> ELSE ms0
      ds == Strip(d)
  IN IF ys # <<>> /\ ms # <<>> /\ ds # <<>>
     THEN ys \o <<" ">> \o ms \o <<" ">> \o
          (IF Len(ds) = 1 /\ ds[1] \in Digits THEN <<"0">> \o ds ELSE ds)
     ELSE IF ys # <<>> /\ ms # <<>> THEN ys \o <<" ">> \o ms
     ELSE ys

FmtNode(n) == fmt_date(n.y, n.m, n.d)

\* str.lower() of a DateType attribute
LowerDateType(t) ==
  CASE t = "Electronic" -> "electronic"
    [] t = "Print" -> "print"
    [] OTHER -> t

\* art.find(".//History/PubMedPubDate[@PubStatus='status']"): the nodes of
\* that status in document order, the first being the one found
HistoryOf(art, status) == SelectSeq(art.history, LAMBDA h : h.status = status)

extract_pubdate_display(art) ==
  LET ads == art.article_dates
      elec == SelectSeq(ads, LAMBDA a : LowerDateType(a.dtype) = "electronic")
      first == IF ads # <<>> THEN FmtNode(ads[1]) ELSE <<>>
      issue == FmtNode(art.issue_date)
      md == Strip(art.medline_date)
  IN IF elec # <<>> THEN FmtNode(elec[1])
     ELSE IF first # <<>> THEN first
     ELSE IF issue # <<>> THEN issue
     ELSE IF md # <<>> THEN md
     ELSE IF HistoryOf(art, "pubmed") # <<>> THEN FmtNode(HistoryOf(art, "pubmed")[1])
     ELSE IF HistoryOf(art, "entrez") # <<>> THEN FmtNode(HistoryOf(art, "entrez")[1])
     ELSE IF HistoryOf(art, "medline") # <<>> THEN FmtNode(HistoryOf(art, "medline")[1])
     ELSE <<>>

parse_article(art) ==
  [pmid |-> art.pmid, abstract |-> art.abstract, authors |-> authors_line(art),
   pubdate |-> extract_pubdate_display(art)]

\* ET.fromstring raises on a blob that is not well-formed XML
ParseRaises(blob) == blob.kind = "malformed"

parse_records(blob) ==
  IF blob.kind = "empty" THEN <<>>
  ELSE [i \in 1..Len(blob.arts) |-> parse_article(blob.arts[i])]

\* ----------------------------------------------------------- summarization
\* pieces standing for the program's fixed texts
BULLET == "<bullet>"

TITLE_FAILED == <<"<title generation failed>">>

BULLET_MISSING == <<BULLET, "<summary is insufficient>">>

NO_ABSTRACT == <<BULLET, "<no abstract on PubMed>">>

BulletMax == 150

BulletKeep == 147

ELLIPSIS == "<ellipsis>"

NoBullets == [t |-> "none", v |-> <<>>]

BulletList(v) == [t |-> "list", v |-> v]

BulletNumber == [t |-> "int", v |-> <<>>]

EmptyData == [title_ja |-> <<>>, bullets |-> NoBullets]

\* the response texts of the model
TEXT_NONE == ""

TEXT_PROSE == "sorry, no summary"

TEXT_JSON_LIST == "[1]"

TEXT_GOOD == "{\"title_ja\": \"T\", \"bullets\": [\"a\", \"- b\", \" \", \"c\", \"d\", \"e\"]}"

TEXT_SHORT == "{\"title_ja\": \"- .\", \"bullets\": [\"a\"]}"

TEXT_BAD_BULLETS == "{\"title_ja\": \"T\", \"bullets\": 5}"

\* _force_json: the dict of the text, {} when there is none
force_json(text) ==
  CASE text = TEXT_GOOD ->
         [title_ja |-> <<"T">>,
          bullets |-> BulletList(<< <<"a">>, <<"-", " ", "b">>, <<" ">>, <<"c">>, <<"d">>, <<"e">> >>)]
    [] text = TEXT_SHORT ->
         [title_ja |-> <<"-", " ", ".">>, bullets |-> BulletList(<< <<"a">> >>)]
    [] text = TEXT_BAD_BULLETS -> [title_ja |-> <<"T">>, bullets |-> BulletNumber]
    [] OTHER -> EmptyData

\* a response of the summarization collaborator: genai.Client() raises,
\* generate_content raises, or it returns a text
ClientRaises == [kind |-> "client_raise", text |-> ""]

CallRaises == [kind |-> "call_raise", text |-> ""]

TextResponse(t) == [kind |-> "text", text |-> t]

SummarizerResponses ==
  {ClientRaises, CallRaises} \cup
  {TextResponse(t) : t \in {TEXT_NONE, TEXT_PROSE, TEXT_JSON_LIST, TEXT_GOOD,
                            TEXT_SHORT, TEXT_BAD_BULLETS}}

BulletChars == {BULLET, "-", "*", " "}

TitleLeadChars == {BULLET, "-", "*", "[", "]", "(", ")", " "}

\* iterating a number raises TypeError
FormatBulletsRaises(lines) == lines.t = "int"

RECURSIVE PadTo(_, _, _)
PadTo(xs, target, filler) ==
  IF Len(xs) >= target THEN xs ELSE PadTo(Append(xs, filler), target, filler)

format_bullets(lines, target) ==
  LET raw == IF lines.t = "list" THEN lines.v ELSE <<>>
      stripped == [i \in 1..Len(raw) |-> Strip(raw[i])]
      xs1 == SelectSeq(stripped, LAMBDA x : x # <<>>)
      xs2 == [i \in 1..Len(xs1) |-> Strip(<<BULLET>> \o LStrip(xs1[i], BulletChars))]
      xs3 == IF Len(xs2) > target THEN SubSeq(xs2, 1, target) ELSE xs2
      xs4 == PadTo(xs3, target, BULLET_MISSING)
  IN [i \in 1..Len(xs4) |->
        IF Len(xs4[i]) <= BulletMax THEN xs4[i]
        ELSE Append(SubSeq(xs4[i], 1, BulletKeep), ELLIPSIS)]

\* the dict the try block of summarize_title_and_bullets leaves in data
ResponseData(resp) == IF resp.kind = "text" THEN force_json(resp.text) ELSE EmptyData

SummarizeRaises(resp) ==
  \/ resp.kind = "client_raise"
  \/ FormatBulletsRaises(ResponseData(resp).bullets)

summarize_title_and_bullets(resp) ==
  LET data == ResponseData(resp)
      t1 == LStrip(Strip(data.title_ja), TitleLeadChars)
      t2 == IF t1 # <<>> /\ t1[Len(t1)] = "." THEN SubSeq(t1, 1, Len(t1) - 1) ELSE t1
  IN [title_ja |-> IF t2 = <<>> THEN TITLE_FAILED ELSE t2,
      bullets |-> format_bullets(data.bullets, 4)]

\* main(), lines 551-556: the record as it is appended to items
Annotate(rec, resp) ==
  LET data == summarize_title_and_bullets(resp)
  IN [pmid |-> rec.pmid, abstract |-> rec.abstract, authors |-> rec.authors,
      title_ja |-> data.title_ja,
      summary |-> IF rec.abstract # <<>> THEN Join(data.bullets, <<"\n">>)
                  ELSE NO_ABSTRACT]

\* ------------------------------------------------------------ the program
VARIABLES
  file,        \* the content of sent_pmids.json
  pc,          \* where main() is: idle, load, fetch, loop, saving, send
  runs,        \* the runs started so far; the n-th run's timestamp is n
  pmids,       \* the search result
  state,       \* main's state dict
  new_pmids,   \* the search result less the known identifiers
  blob,        \* what pubmed_efetch returned
  records,     \* parse_records(blob)
  idx,         \* the record the loop is at
  items,       \* the annotated records
  error,       \* how the last run ended: none, or what raised
  log,         \* the store and collaborator events of the run so far
  snapshot,    \* what load_sent_state returned to this run
  loaded,      \* the file content that load read
  delivered,   \* the identifiers of the digests sent so far
  redelivered, \* the identifiers sent in more than one digest
  added,       \* the identifiers some run added to the persisted store
  article,     \* a single article under parse_records
  parsed       \* its record

vars == <<file, pc, runs, pmids, state, new_pmids, blob, records, idx, items,
          error, log, snapshot, loaded, delivered, redelivered, added, article,
          parsed>>

runVars == <<pmids, state, new_pmids, blob, records, idx, items, log, snapshot,
            loaded>>

parseVars == <<article, parsed>>

NoBlob == [kind |-> "empty", arts |-> <<>>]

\* the Year, Month and Day of a date element that is absent
NoDate == [y |-> <<>>, m |-> <<>>, d |-> <<>>]

NoArticle ==
  [pmid |-> "", abstract |-> <<>>, authors |-> <<>>, other_aff |-> <<>>,
   article_dates |-> <<>>, issue_date |-> NoDate, medline_date |-> <<>>,
   history |-> <<>>]

NoRecord == [pmid |-> "", abstract |-> <<>>, authors |-> <<>>, pubdate |-> <<>>]

Event(e, x) == [ev |-> e, id |-> x]

\* the articles of a run: a PMID and an abstract or none
RunArticle(p, abs) ==
  [pmid |-> p, abstract |-> abs, authors |-> <<>>, other_aff |-> <<>>,
   article_dates |-> <<>>, issue_date |-> NoDate, medline_date |-> <<>>,
   history |-> <<>>]

RECURSIVE ArticleSeqs(_)
ArticleSeqs(ps) ==
  IF ps = <<>> THEN {<<>>}
  ELSE {<<RunArticle(Head(ps), a)>> \o t : a \in {<<>>, <<"Abs">>}, t \in ArticleSeqs(Tail(ps))}

\* a PubmedArticle without a PMID element: findtext(".//PMID") is None
NoPmidArticle == RunArticle("", <<"Abs">>)

\* what efetch can return for the requested identifiers: nothing, a text that
\* is not XML, or the articles of some of them in the order requested, with
\* or without an article that carries no PMID
Blobs(ps) ==
  {[kind |-> "empty", arts |-> <<>>], [kind |-> "malformed", arts |-> <<>>]} \cup
  {[kind |-> "xml", arts |-> as \o extra] :
     as \in UNION {ArticleSeqs(sub) : sub \in SubSeqs(ps)},
     extra \in {<<>>, <<NoPmidArticle>>}}

\* the files a first run can find: none, or a legacy list (a member may repeat)
InitFiles ==
  {MissingFile} \cup {LegacyFile(SortedKeys(S)) : S \in SUBSET Ids}
    \cup {LegacyFile(<<p, p>>) : p \in Ids}

ResetRun ==
  /\ pmids' = <<>>
  /\ state' = EmptyState
  /\ new_pmids' = <<>>
  /\ blob' = NoBlob
  /\ records' = <<>>
  /\ idx' = 0
  /\ items' = <<>>
  /\ log' = <<>>
  /\ snapshot' = EmptyState
  /\ loaded' = MissingFile

Init ==
  /\ file \in InitFiles
  /\ pc = "idle"
  /\ runs = 0
  /\ pmids = <<>>
  /\ state = EmptyState
  /\ new_pmids = <<>>
  /\ blob = NoBlob
  /\ records = <<>>
  /\ idx = 0
  /\ items = <<>>
  /\ error = "none"
  /\ log = <<>>
  /\ snapshot = EmptyState
  /\ loaded = MissingFile
  /\ delivered = {}
  /\ redelivered = {}
  /\ added = {}
  /\ article = NoArticle
  /\ parsed = NoRecord

\* a raise that reaches the top of main(): the run ends, the file stays
Abort(why) ==
  /\ pc' = "idle"
  /\ error' = why
  /\ ResetRun
  /\ UNCHANGED <<file, runs, delivered, redelivered, added, parseVars>>

\* main(), lines 513-522: the search returns the candidate identifiers
Search ==
  /\ pc = "idle"
  /\ runs < MaxRuns
  /\ \E ps \in SearchResults :
       /\ pmids' = ps
       /\ pc' = "load"
       /\ runs' = runs + 1
       /\ error' = "none"
       /\ UNCHANGED <<file, state, new_pmids, blob, records, idx, items, log,
                      snapshot, loaded, delivered, redelivered, added, parseVars>>

\* main(), lines 519-520 and pubmed_esearch: no query configured, or the request fails
SearchFails ==
  /\ pc = "idle"
  /\ runs < MaxRuns
  /\ runs' = runs + 1
  /\ pc' = "idle"
  /\ error' = "search_error"
  /\ UNCHANGED <<file, runVars, delivered, redelivered, added, parseVars>>

\* main(), lines 525-530
LoadState ==
  /\ pc = "load"
  /\ state' = load_sent_state(file)
  /\ snapshot' = state'
  /\ loaded' = file
  /\ new_pmids' = FilterNew(pmids, state')
  /\ log' = Append(log, Event("load", file.kind))
  /\ pc' = IF new_pmids' # <<>> THEN "fetch" ELSE "send"
  /\ UNCHANGED <<file, runs, pmids, blob, records, idx, items, error,
                 delivered, redelivered, added, parseVars>>

\* main(), lines 534-541: efetch answers and parse_records returns
Fetch ==
  /\ pc = "fetch"
  /\ \E b \in Blobs(new_pmids) :
       /\ ~ParseRaises(b)
       /\ blob' = b
       /\ records' = parse_records(b)
       /\ idx' = 1
       /\ pc' = "loop"
       /\ UNCHANGED <<file, runs, pmids, state, new_pmids, items, error, log,
                      snapshot, loaded, delivered, redelivered, added, parseVars>>

\* main(), line 535: parse_records raises on the blob
FetchParseRaises ==
  /\ pc = "fetch"
  /\ \E b \in Blobs(new_pmids) : ParseRaises(b)
  /\ Abort("parse_error")

\* pubmed_efetch, line 105: the request fails
FetchFails ==
  /\ pc = "fetch"
  /\ Abort("fetch_error")

\* a loop that is left after its first iteration
LoopDoneAfterFirst(i, recs) == i > 1 \/ i > Len(recs)

LoopDone(i, recs) == i > Len(recs)

\* main(), lines 542-556: one iteration that completes
ProcessRecord ==
  /\ pc = "loop"
  /\ ~LoopDone(idx, records)
  /\ \E resp \in SummarizerResponses :
       /\ ~SummarizeRaises(resp)
       /\ state' = Register(state, records[idx].pmid, runs)
       /\ items' = Append(items, Annotate(records[idx], resp))
       /\ log' = log \o <<Event("register", records[idx].pmid),
                          Event("summarize", records[idx].pmid)>>
       /\ idx' = idx + 1
       /\ UNCHANGED <<file, pc, runs, pmids, new_pmids, blob, records, error,
                      snapshot, loaded, delivered, redelivered, added, parseVars>>

\* main(), line 551: summarize_title_and_bullets raises
ProcessRecordRaises ==
  /\ pc = "loop"
  /\ ~LoopDone(idx, records)
  /\ \E resp \in SummarizerResponses : SummarizeRaises(resp)
  /\ Abort("summarize_error")

\* save_sent_state, line 56: open(STATE_PATH, "w") truncates the file
SaveOpen ==
  /\ pc = "loop"
  /\ LoopDone(idx, records)
  /\ file' = TornFile
  /\ log' = Append(log, Event("save", ""))
  /\ pc' = "saving"
  /\ UNCHANGED <<runs, pmids, state, new_pmids, blob, records, idx, items, error,
                 snapshot, loaded, delivered, redelivered, added, parseVars>>

\* save_sent_state, line 57: json.dump writes the mapping and the file is closed
SaveWrite ==
  /\ pc = "saving"
  /\ file' = json_dump(state)
  /\ added' = added \cup (DOMAIN state \ DOMAIN snapshot)
  /\ pc' = "send"
  /\ UNCHANGED <<runs, pmids, state, new_pmids, blob, records, idx, items, error,
                 log, snapshot, loaded, delivered, redelivered, parseVars>>

ItemIds(its) == {its[i].pmid : i \in 1..Len(its)}

\* main(), lines 562-569: the digest of items is delivered
Send ==
  /\ pc = "send"
  /\ delivered' = delivered \cup ItemIds(items)
  /\ redelivered' = redelivered \cup (ItemIds(items) \cap delivered)
  /\ pc' = "idle"
  /\ error' = "none"
  /\ ResetRun
  /\ UNCHANGED <<file, runs, added, parseVars>>

\* send_via_gmail raises: credentials missing, or SMTP fails
SendFails ==
  /\ pc = "send"
  /\ Abort("send_error")

\* the process is killed at any point of a run
Interrupt ==
  /\ pc # "idle"
  /\ Abort("interrupted")

Next ==
  \/ Search
  \/ SearchFails
  \/ LoadState
  \/ Fetch
  \/ FetchParseRaises
  \/ FetchFails
  \/ ProcessRecord
  \/ ProcessRecordRaises
  \/ SaveOpen
  \/ SaveWrite
  \/ Send
  \/ SendFails
  \/ Interrupt

Spec == Init /\ [][Next]_vars

\* ------------------------------------------- the store operations alone
\* register applied to any identifier with any timestamp, starting from
\* what load_sent_state returns; runs holds the timestamp of the last call
\* and log the call
InitStore ==
  /\ file \in InitFiles
  /\ pc = "store"
  /\ runs = 0
  /\ pmids = <<>>
  /\ state = load_sent_state(file)
  /\ new_pmids = <<>>
  /\ blob = NoBlob
  /\ records = <<>>
  /\ idx = 0
  /\ items = <<>>
  /\ error = "none"
  /\ log = <<>>
  /\ snapshot = EmptyState
  /\ loaded = MissingFile
  /\ delivered = {}
  /\ redelivered = {}
  /\ added = {}
  /\ article = NoArticle
  /\ parsed = NoRecord

StoreRegister ==
  /\ pc = "store"
  /\ \E id \in Ids, ts \in 1..MaxRuns :
       /\ state' = Register(state, id, ts)
       /\ runs' = ts
       /\ log' = <<Event("register", id)>>
  /\ UNCHANGED <<file, pc, pmids, new_pmids, blob, records, idx, items, error,
                 snapshot, loaded, delivered, redelivered, added, parseVars>>

NextStore == StoreRegister

SpecStore == InitStore /\ [][NextStore]_vars

\* --------------------------------------------- parse_records on one article
AuthorAffs == {<<>>, << <<"123">> >>, << <<"Seoul", "Japan">> >>}

OtherAffs == AuthorAffs \cup {<< <<"a@b.jp">> >>, << <<"Japan">>, <<"123">> >>}

\* the name parts of an author node: named, collective, both, or neither
AuthorNames ==
  {[last |-> l, init |-> i, collective |-> <<>>] :
     l \in {<<>>, <<" ">>, <<"Sato">>}, i \in {<<>>, <<"K">>}}
    \cup {[last |-> <<>>, init |-> <<>>, collective |-> <<"Grp">>],
          [last |-> <<"Sato">>, init |-> <<"K">>, collective |-> <<"Grp">>]}

AuthorNodes ==
  {[last |-> n.last, init |-> n.init, collective |-> n.collective, aff |-> a] :
     n \in AuthorNames, a \in AuthorAffs}

AuthorLists == UNION {[1..n -> AuthorNodes] : n \in 0..MaxAuthors}

Articles ==
  {[pmid |-> "101", abstract |-> <<>>, authors |-> as, other_aff |-> o,
    article_dates |-> <<>>, issue_date |-> NoDate, medline_date |-> <<>>,
    history |-> <<>>] :
     as \in AuthorLists, o \in OtherAffs}

\* the dates an ArticleDate element can carry: one without a Year, one whose
\* day is a single digit
ArticleDateValues ==
  {[y |-> <<>>, m |-> <<"03">>, d |-> <<"5">>],
   [y |-> <<" ", "2024">>, m |-> <<"03">>, d |-> <<"5">>]}

ArticleDateNodes ==
  {[dtype |-> t, y |-> v.y, m |-> v.m, d |-> v.d] :
     t \in {"Electronic", "Print"}, v \in ArticleDateValues}

\* JournalIssue/PubDate: absent, a year and a season, a year and a day
IssueDates ==
  {NoDate,
   [y |-> <<"2020">>, m |-> <<"Jul-Aug">>, d |-> <<>>],
   [y |-> <<"2023">>, m |-> <<>>, d |-> <<"9">>]}

MedlineDates == {<<>>, <<"2019 Spring", " ">>}

HistoryValues ==
  {[y |-> <<>>, m |-> <<"7">>, d |-> <<"14">>],
   [y |-> <<"2011">>, m |-> <<"7">>, d |-> <<"14">>]}

HistoryNodes ==
  {[status |-> st, y |-> v.y, m |-> v.m, d |-> v.d] :
     st \in {"pubmed", "entrez", "medline"}, v \in HistoryValues}

\* articles without authors whose date elements vary
DateArticles ==
  {[pmid |-> "101", abstract |-> <<>>, authors |-> <<>>, other_aff |-> <<>>,
    article_dates |-> ads, issue_date |-> iss, medline_date |-> md,
    history |-> h] :
     ads \in UNION {[1..n -> ArticleDateNodes] : n \in 0..MaxDates},
     iss \in IssueDates, md \in MedlineDates,
     h \in UNION {[1..n -> HistoryNodes] : n \in 0..MaxDates}}

InitParse ==
  /\ file = MissingFile
  /\ pc = "parse"
  /\ runs = 0
  /\ pmids = <<>>
  /\ state = EmptyState
  /\ new_pmids = <<>>
  /\ blob = NoBlob
  /\ records = <<>>
  /\ idx = 0
  /\ items = <<>>
  /\ error = "none"
  /\ log = <<>>
  /\ snapshot = EmptyState
  /\ loaded = MissingFile
  /\ delivered = {}
  /\ redelivered = {}
  /\ added = {}
  /\ article \in Articles \cup DateArticles
  /\ parsed = NoRecord

ParseOne ==
  /\ pc = "parse"
  /\ parsed' = parse_records([kind |-> "xml", arts |-> <<article>>])[1]
  /\ pc' = "parsed"
  /\ UNCHANGED <<file, runs, runVars, error, delivered, redelivered, added, article>>

NextParse == ParseOne

SpecParse == InitParse /\ [][NextParse]_vars

\* ================================================================ claims
SavedInRun == \E i \in 1..Len(log) : log[i].ev = "save"

EventsOf(e) == {i \in 1..Len(log) : log[i].ev = e}

RegisteredIds == {log[i].id : i \in EventsOf("register")}

\* C1: once an identifier was in a delivered digest, no later run delivers a
\* record with that identifier again (a record without a PMID has no
\* identifier to compare).
C1_NoRedelivery == redelivered \ {""} = {}

\* C2: between runs, every identifier that a run added to the persisted
\* store was in a digest that was delivered.
C2_PersistedWasDelivered ==
  pc = "idle" =>
    \A p \in DOMAIN load_sent_state(file) \cap added : p \in delivered

\* C3: at every point of a run after the load, the persisted store as the
\* next load would see it is the run's pre-run snapshot or, once the run has
\* saved, the run's complete new state.
C3_AllOrNothing ==
  pc \in {"fetch", "loop", "saving", "send"} =>
    \/ load_sent_state(file) = snapshot
    \/ pc = "send" /\ load_sent_state(file) = state

\* C5: no blob makes parse_records raise, and a run that got an empty or
\* malformed blob goes on with no records and an unchanged state mapping.
C5_BadBlobYieldsNoRecords ==
  /\ error # "parse_error"
  /\ (pc = "loop" /\ blob.kind # "xml") => (records = <<>> /\ state = snapshot)

\* C6: no summarization failure aborts the run, and when the loop is over
\* every record was summarized exactly once and is in the digest, with a
\* non-empty localized title and summary.
C6_SummaryNeverOmitsOrAborts ==
  /\ error # "summarize_error"
  /\ pc \in {"saving", "send"} =>
       /\ Len(items) = Len(records)
       /\ \A i \in 1..Len(records) :
            /\ items[i].pmid = records[i].pmid
            /\ Cardinality({j \in EventsOf("summarize") : log[j].id = records[i].pmid})
                 = Cardinality({k \in 1..Len(records) : records[k].pmid = records[i].pmid})
            /\ items[i].title_ja # <<>>
            /\ items[i].summary # <<>>

\* C8: an article with no author node has an empty authors display.
C8_NoAuthorsEmptyDisplay ==
  (pc = "parsed" /\ article.authors = <<>>) => parsed.authors = <<>>

Credited(au) == au.last # <<>> \/ au.init # <<>> \/ au.collective # <<>>

CreditedCount(art) == Cardinality({i \in 1..Len(art.authors) : Credited(art.authors[i])})

\* the name of the first credited author whose rendered name is not empty
RenderedName(au) ==
  IF au.last # <<>> \/ au.init # <<>> THEN Strip(au.last \o <<" ">> \o au.init)
  ELSE au.collective

NameFound(art) ==
  \E i \in 1..Len(art.authors) : Credited(art.authors[i]) /\ RenderedName(art.authors[i]) # <<>>

FirstName(art) ==
  RenderedName(art.authors[CHOOSE i \in 1..Len(art.authors) :
    /\ Credited(art.authors[i]) /\ RenderedName(art.authors[i]) # <<>>
    /\ \A j \in 1..(i - 1) :
         ~(Credited(art.authors[j]) /\ RenderedName(art.authors[j]) # <<>>)])

EtAlCase == pc = "parsed" /\ CreditedCount(article) >= 2 /\ NameFound(article)

\* C9 as claimed: with two or more credited authors and a first-author name
\* found, the authors display ends with ", et al.", whether or not a country
\* was inferred.
C9_EndsWithEtAl == EtAlCase => EndsWith(parsed.authors, ET_AL)

\* C9 as amended: with two or more credited authors and a first-author name
\* found, the authors display is that name followed by ", et al.", and then
\* by the inferred country in parentheses when there is one.
C9_EtAlThenCountry ==
  EtAlCase =>
    LET base == FirstName(article) \o ET_AL
    IN \/ parsed.authors = base
       \/ /\ Len(parsed.authors) = Len(base) + 3
          /\ SubSeq(parsed.authors, 1, Len(base)) = base
          /\ parsed.authors[Len(base) + 1] = "("
          /\ parsed.authors[Len(base) + 2] # ""
          /\ parsed.authors[Len(base) + 3] = ")"

C9_Witness ==
  /\ EtAlCase
  /\ parsed.authors = <<"Sato", " ", "K">> \o ET_AL \o <<"(", "Japan", ")">>

C4_Step ==
  (pc = "store" /\ log' = <<Event("register", log'[1].id)>>) =>
    LET id == log'[1].id
        ts == runs'
    IN /\ DOMAIN state' = DOMAIN state \cup {id}
       /\ \A p \in DOMAIN state \ {id} : state'[p] = state[p]
       /\ id \notin DOMAIN state => state'[id].added_at = ts
       /\ (id \in DOMAIN state /\ state[id].added_at = None) => state'[id].added_at = ts
       /\ (id \in DOMAIN state /\ state[id].added_at # None) => state' = state

\* C4: a register step removes no entry and changes no other entry; it
\* inserts an absent identifier with the timestamp, backfills an entry whose
\* addedAt is absent, and leaves an entry that has a timestamp as it was.
C4_RegisterKeepsFirstTimestamp == [][C4_Step]_vars

\* an identifier registered with timestamp 2 that keeps its earlier timestamp 1
C4_Witness ==
  /\ pc = "store"
  /\ log = <<Event("register", "101")>>
  /\ runs = 2
  /\ "101" \in DOMAIN state
  /\ state["101"].added_at = 1

\* C7: after a run that loaded a legacy list, registered new identifiers and
\* saved, a reload has every member of the list with an absent addedAt and
\* every registered identifier with a timestamp.
C7_LegacyRoundTrip ==
  (pc = "send" /\ loaded.kind = "list" /\ SavedInRun) =>
    LET re == load_sent_state(file)
    IN /\ \A p \in Range(loaded.data) : p \in DOMAIN re /\ re[p].added_at = None
       /\ \A r \in RegisteredIds : r \in DOMAIN re /\ re[r].added_at # None
       /\ DOMAIN re = Range(loaded.data) \cup RegisteredIds

C7_Witness ==
  /\ pc = "send"
  /\ loaded = LegacyFile(<<"101", "101">>)
  /\ SavedInRun
  /\ RegisteredIds = {"102"}
  /\ file.kind = "dict"

\* C10: in a run the state is loaded once, before any registration; the
\* store is written at most once, after the registration of every record of
\* the run; and the file is as it was loaded until that write.
C10_SaveOnceAfterRegistering ==
  /\ Cardinality(EventsOf("load")) <= 1
  /\ Cardinality(EventsOf("save")) <= 1
  /\ \A i \in EventsOf("register") :
       /\ \E j \in EventsOf("load") : j < i
       /\ \A j \in EventsOf("save") : i < j
  /\ \A i \in EventsOf("save") :
       /\ Cardinality(EventsOf("register")) = Len(records)
       /\ RegisteredIds = {records[k].pmid : k \in 1..Len(records)}
  /\ (pc \in {"fetch", "loop", "saving", "send"} /\ ~SavedInRun) => file = loaded

C10_Witness ==
  /\ pc = "send"
  /\ Len(log) = 6
  /\ log[1].ev = "load"
  /\ log[2].ev = "register"
  /\ log[4].ev = "register"
  /\ log[6].ev = "save"

\* C11: every identifier that a run has added to its state is in the run's
\* filtered candidate list (in the search result, unknown at load) and is
\* the non-empty identifier of a record; no record without an identifier is
\* registered.
C11_RegistersOnlyFilteredIds ==
  pc \in {"loop", "saving", "send"} =>
    /\ \A p \in DOMAIN state \ DOMAIN snapshot :
         /\ p \in Range(new_pmids)
         /\ p \in Range(pmids)
         /\ p \notin DOMAIN load_sent_state(loaded)
         /\ p # ""
         /\ \E i \in 1..Len(records) : records[i].pmid = p
    /\ "" \notin RegisteredIds

\* what each strategy yields for an article, in the order of the chain:
\* electronic article date, first article date, issue date, free-text
\* medline date, then the history dates pubmed, entrez, medline
DateStrategies(art) ==
  LET elec == SelectSeq(art.article_dates,
                        LAMBDA a : LowerDateType(a.dtype) = "electronic")
      Found(nodes) == IF nodes # <<>> THEN FmtNode(nodes[1]) ELSE <<>>
  IN <<Found(elec), Found(art.article_dates), FmtNode(art.issue_date),
       Strip(art.medline_date), Found(HistoryOf(art, "pubmed")),
       Found(HistoryOf(art, "entrez")), Found(HistoryOf(art, "medline"))>>

RECURSIVE FirstNonEmpty(_)
FirstNonEmpty(ss) ==
  IF ss = <<>> THEN <<>>
  ELSE IF Head(ss) # <<>> THEN Head(ss)
  ELSE FirstNonEmpty(Tail(ss))

\* C12: the publication date of a record is what the first strategy with a
\* non-empty rendering yields, in the order electronic article date, first
\* article date, issue date, medline date, history pubmed, entrez, medline;
\* it is empty only if every strategy yields empty.
C12_FirstNonEmptyDateWins ==
  pc = "parsed" => parsed.pubdate = FirstNonEmpty(DateStrategies(article))

====
